---- MODULE Spec2Model ----
(***************************************************************************)
(* Model of src/ml/budget_forecast.py: the /predict pipeline of the ML     *)
(* budget forecasting service (daily expansion, model fitting, monthly     *)
(* aggregation, confidence scoring, trend detection, current-month         *)
(* projection, response composition).                                      *)
(*                                                                         *)
(* Amounts are integers counting thousandths of a currency unit; a value   *)
(* produced by a true division is kept as an exact fraction [num, den].    *)
(* round(x, 2) therefore rounds to a multiple of 10.  Dates are proleptic  *)
(* Gregorian ordinals, as datetime.toordinal() counts them.  A month       *)
(* string "YYYY-MM" is the tuple of its six digits.                        *)
(***************************************************************************)
EXTENDS Integers, Sequences, FiniteSets, TLC

VARIABLES pc, request, engine, response, steps, locals, now, memo, call, ret

vars == <<pc, request, engine, response, steps, locals, now, memo, call, ret>>

(***************************************************************************)
(* datetime / timedelta                                                    *)
(***************************************************************************)
IsLeap(y) == (y % 4 = 0 /\ y % 100 # 0) \/ y % 400 = 0

DaysBeforeYear(y) ==
    (y - 1) * 365 + (y - 1) \div 4 - (y - 1) \div 100 + (y - 1) \div 400

\* days before the first of month m in a year that is not a leap year
DaysBeforeMonthTable == <<0, 31, 59, 90, 120, 151, 181, 212, 243, 273, 304, 334>>

DaysBeforeMonth(y, m) ==
    DaysBeforeMonthTable[m] + (IF m > 2 /\ IsLeap(y) THEN 1 ELSE 0)

\* datetime(y, m, d).toordinal()
ToOrdinal(date) ==
    DaysBeforeYear(date.year) + DaysBeforeMonth(date.year, date.month) + date.day

\* datetime.fromordinal(n): 400-, 100-, 4- and 1-year cycles, then the month
FromOrdinal(n) ==
    LET n0   == n - 1
        n400 == n0 \div 146097
        r400 == n0 % 146097
        n100 == r400 \div 36524
        r100 == r400 % 36524
        n4   == r100 \div 1461
        r4   == r100 % 1461
        n1   == r4 \div 365
        r1   == r4 % 365
        y    == n400 * 400 + n100 * 100 + n4 * 4 + n1 + 1
    IN  IF n1 = 4 \/ n100 = 4
        THEN [year |-> y - 1, month |-> 12, day |-> 31]
        ELSE LET guess  == (r1 + 50) \div 32
                 before == DaysBeforeMonth(y, guess)
                 m      == IF before > r1 THEN guess - 1 ELSE guess
             IN  [year |-> y, month |-> m, day |-> r1 - DaysBeforeMonth(y, m) + 1]

\* date + timedelta(days=k)
AddDays(date, k) == FromOrdinal(ToOrdinal(date) + k)

\* date.replace(day=d)
ReplaceDay(date, d) == [date EXCEPT !.day = d]

(***************************************************************************)
(* Results of calls that may raise: exc names the exception ("none" when   *)
(* the call returned), val is the returned value.                          *)
(***************************************************************************)
Ok(v) == [exc |-> "none", val |-> v]

Raise(e) == [exc |-> e, val |-> [none |-> TRUE]]

\* datetime.strptime(s, '%Y-%m'): the digits of the year and of the month,
\* ValueError unless the month is 1..12 and the year at least 1.
strptime(s) ==
    LET y == s[1] * 1000 + s[2] * 100 + s[3] * 10 + s[4]
        m == s[5] * 10 + s[6]
    IN  IF m \in 1..12 /\ y >= 1
        THEN Ok([year |-> y, month |-> m, day |-> 1])
        ELSE Raise("ValueError")

\* str(Period('M')): the six digits of a year and month
PeriodStr(y, m) ==
    << y \div 1000, (y \div 100) % 10, (y \div 10) % 10, y % 10,
       m \div 10, m % 10 >>

(***************************************************************************)
(* prepare_data                                                            *)
(***************************************************************************)
\* A Python value that may be None: the list of a historical_data argument.
NonePy == [isNone |-> TRUE, list |-> << >>]

ListPy(l) == [isNone |-> FALSE, list |-> l]

\* days_in_month with a fault: the 28th padded by 2 days instead of 4
days_in_month_pad2(month_date) ==
    AddDays(ReplaceDay(AddDays(ReplaceDay(month_date, 28), 2), 1), -1)

\* line 31: the last day of month_date's month
days_in_month(month_date) ==
    AddDays(ReplaceDay(AddDays(ReplaceDay(month_date, 28), 4), 1), -1)

\* lines 33-40: the rows of one entry, a row per day of its month
EntryDays(month_date, days_count, spent) ==
    [day \in 1..days_count |->
        [ds |-> ToOrdinal(month_date) + (day - 1),
         y  |-> [num |-> spent, den |-> days_count]]]

\* lines 29-32: the month's first day, or the exception strptime raised
EntryParsed(parsed, spent) ==
    IF parsed.exc # "none" THEN Raise(parsed.exc)
    ELSE Ok(EntryDays(parsed.val, days_in_month(parsed.val).day, spent))

EntryRows(entry) == EntryParsed(strptime(entry.month), entry.spent)

\* lines 27-40: the loop over the entries
RECURSIVE DailyData(_)
DailyRest(head, rest) ==
    IF rest.exc # "none" THEN rest ELSE Ok(head.val \o rest.val)

DailyFrom(head, others) ==
    IF head.exc # "none" THEN head ELSE DailyRest(head, DailyData(others))

DailyData(historical_data) ==
    IF historical_data = << >> THEN Ok(<< >>)
    ELSE DailyFrom(EntryRows(Head(historical_data)), Tail(historical_data))

\* line 42: the DataFrame of the rows
DataFrame(daily_data) ==
    IF daily_data.exc # "none" THEN daily_data ELSE Ok(ListPy(daily_data.val))

\* prepare_data(historical_data): None, a DataFrame (its rows), or an exception
prepare_data(historical_data) ==
    IF historical_data.isNone \/ Len(historical_data.list) = 0
    THEN Ok(NonePy)
    ELSE DataFrame(DailyData(historical_data.list))

(***************************************************************************)
(* The forecasting engine (Prophet) and pandas are external: what they     *)
(* return is the environment's choice env, drawn per request.              *)
(*   env.fit        "ok" or "raise": whether Prophet.fit returns           *)
(*   env.params     the fitted trend: level, slope per day, and the        *)
(*                  distances wl, wu of the interval bounds from yhat      *)
(*   env.zerodiv    a division by a zero monthly sum gives "inf" (a numpy  *)
(*                  float) or "raise" (a Python float)                     *)
(*   env.emptyframe a frame of no rows makes predict "raise" or come back  *)
(*                  "empty"                                                *)
(*   env.jsonify    "ok" or "raise": whether the response serialises       *)
(***************************************************************************)
\* Prophet(...).fit(df): the trend is anchored at the last training date
Fit(df, env) ==
    [level |-> env.params.level, slope |-> env.params.slope,
     wl |-> env.params.wl, wu |-> env.params.wu,
     t0 |-> CHOOSE d \in {df[i].ds : i \in DOMAIN df} :
                \A i \in DOMAIN df : df[i].ds <= d,
     history_dates |-> [i \in DOMAIN df |-> df[i].ds]]

\* train_prophet_model with a fault: 100 daily points asked for
train_prophet_model_100(df, env) ==
    IF df.isNone \/ Len(df.list) < 100 THEN Ok(NonePy)
    ELSE IF env.fit = "raise" THEN Raise("FitError")
    ELSE Ok(ListPy(<<Fit(df.list, env)>>))

\* train_prophet_model(df): None, a fitted model, or the exception fit raised
train_prophet_model(df, env) ==
    IF df.isNone \/ Len(df.list) < 10 THEN Ok(NonePy)
    ELSE IF env.fit = "raise" THEN Raise("FitError")
    ELSE Ok(ListPy(<<Fit(df.list, env)>>))

\* one row of model.predict: the point estimate and its interval at date ds
Interval(model, ds, yhat) ==
    [ds |-> ds, yhat |-> yhat,
     yhat_lower |-> yhat - model.wl, yhat_upper |-> yhat + model.wu]

PredictRow(model, ds) ==
    Interval(model, ds, model.level + model.slope * (ds - model.t0))

\* model.predict(frame): a row per date of the frame
ModelPredict(model, dates) == [i \in DOMAIN dates |-> PredictRow(model, dates[i])]

\* model.make_future_dataframe(periods, freq='D'): the history dates, then
\* the periods days after the last of them
make_future_dataframe(model, periods) ==
    model.history_dates \o [k \in 1..periods |-> model.t0 + k]

\* df[df['ds'] > last_date]
SelectSeq2(rows, last_date) ==
    SelectSeq(rows, LAMBDA r : r.ds > last_date)

(***************************************************************************)
(* aggregate_daily_to_monthly                                              *)
(***************************************************************************)
\* dt.to_period('M') as the month's index, year * 12 + (month - 1)
PeriodIndex(date) == date.year * 12 + (date.month - 1)

to_period(ds) == PeriodIndex(FromOrdinal(ds))

RECURSIVE SumField(_, _, _)
SumFrom(x, S, rows, field) == rows[x][field] + SumField(S \ {x}, rows, field)

\* the sum of a column over the rows whose index is in S
SumField(S, rows, field) ==
    IF S = {} THEN 0 ELSE SumFrom(CHOOSE e \in S : TRUE, S, rows, field)

RECURSIVE SortedSeq(_)
SortedFrom(lo, S) == <<lo>> \o SortedSeq(S \ {lo})

SortedSeq(S) ==
    IF S = {} THEN << >>
    ELSE SortedFrom(CHOOSE e \in S : \A o \in S : e <= o, S)

\* one group of the groupby: the sums of the three columns over its rows
AggRow(forecast_df, key, rows) ==
    [month      |-> PeriodStr(key \div 12, (key % 12) + 1),
     yhat       |-> SumField(rows, forecast_df, "yhat"),
     yhat_lower |-> SumField(rows, forecast_df, "yhat_lower"),
     yhat_upper |-> SumField(rows, forecast_df, "yhat_upper")]

AggRows(forecast_df, month, keys) ==
    [g \in DOMAIN keys |->
        AggRow(forecast_df, keys[g], {i \in DOMAIN month : month[i] = keys[g]})]

GroupBySum(forecast_df, month) ==
    AggRows(forecast_df, month, SortedSeq({month[i] : i \in DOMAIN month}))

\* groupby('month').agg(sum).reset_index(): one row per month, in month order
aggregate_daily_to_monthly(forecast_df) ==
    GroupBySum(forecast_df,
               [i \in DOMAIN forecast_df |-> to_period(forecast_df[i].ds)])

(***************************************************************************)
(* Fractions and rounding                                                  *)
(***************************************************************************)
\* a / b
Frac(a, b) == IF b < 0 THEN [num |-> -a, den |-> -b] ELSE [num |-> a, den |-> b]

\* p < q for fractions of positive denominators
FracLess(p, q) == p.num * q.den < q.num * p.den

\* floor of num / den, den > 0 (\div floors in TLA+)
Floor(num, den) == num \div den

\* round(num / den) to the nearest integer, a tie to the even one, den > 0
RoundHalfEven(num, den) ==
    LET f == Floor(num, den)
        twice == 2 * (num - f * den)
    IN  IF twice < den THEN f
        ELSE IF twice > den THEN f + 1
        ELSE IF f % 2 = 0 THEN f ELSE f + 1

\* round(x, 2) of x = num / den thousandths: a multiple of 10
Round2(x) == 10 * RoundHalfEven(x.num, x.den * 10)

Whole(n) == [num |-> n, den |-> 1]

Max0(n) == IF n > 0 THEN n ELSE 0

(***************************************************************************)
(* calculate_confidence, detect_trend                                      *)
(***************************************************************************)
\* the label the thresholds give a width
WidthLabel(interval_width) ==
    IF FracLess(interval_width, Frac(1, 5)) THEN "high"
    ELSE IF FracLess(interval_width, Frac(2, 5)) THEN "medium"
    ELSE "low"

\* calculate_confidence(yhat, yhat_lower, yhat_upper).  A zero yhat divides
\* by zero: a numpy float gives inf, -inf or nan (no comparison with nan is
\* true), a Python float raises.
calculate_confidence(yhat, yhat_lower, yhat_upper, env) ==
    IF yhat = 0
    THEN IF env.zerodiv = "raise" THEN Raise("ZeroDivisionError")
         ELSE IF yhat_upper - yhat_lower < 0 THEN Ok("high")
         ELSE Ok("low")
    ELSE Ok(WidthLabel(Frac(yhat_upper - yhat_lower, yhat)))

\* detect_trend with a fault: the first entry compared with the second
detect_trend_second(historical_data) ==
    IF Len(historical_data) < 2 THEN Ok("stable")
    ELSE LET recent == historical_data[1].spent
             older  == historical_data[2].spent
         IN  IF older = 0 THEN Raise("ZeroDivisionError")
             ELSE LET change_percent == Frac((recent - older) * 100, older)
                  IN  IF FracLess(Whole(15), change_percent) THEN Ok("increasing")
                      ELSE IF FracLess(change_percent, Whole(-15)) THEN Ok("decreasing")
                      ELSE Ok("stable")

\* detect_trend with the zero denominator guarded
detect_trend_guarded(historical_data) ==
    IF Len(historical_data) < 2 THEN Ok("stable")
    ELSE LET recent == historical_data[1].spent
             older  == historical_data[Len(historical_data)].spent
         IN  IF older = 0 THEN Ok("stable")
             ELSE LET change_percent == Frac((recent - older) * 100, older)
                  IN  IF FracLess(Whole(15), change_percent) THEN Ok("increasing")
                      ELSE IF FracLess(change_percent, Whole(-15)) THEN Ok("decreasing")
                      ELSE Ok("stable")

\* detect_trend(historical_data)
detect_trend(historical_data) ==
    IF Len(historical_data) < 2 THEN Ok("stable")
    ELSE LET recent == historical_data[1].spent
             older  == historical_data[Len(historical_data)].spent
         IN  IF older = 0 THEN Raise("ZeroDivisionError")
             ELSE LET change_percent == Frac((recent - older) * 100, older)
                  IN  IF FracLess(Whole(15), change_percent) THEN Ok("increasing")
                      ELSE IF FracLess(change_percent, Whole(-15)) THEN Ok("decreasing")
                      ELSE Ok("stable")

(***************************************************************************)
(* predict: the POST /predict handler.  data is what request.get_json()    *)
(* returned: None, or a JSON object (a record of the keys it holds).       *)
(* The result is the response, the pipeline steps that ran, in order, and  *)
(* the handler's local variables at its return.                            *)
(***************************************************************************)
NoneData == [isNone |-> TRUE, obj |-> << >>]

Object(o) == [isNone |-> FALSE, obj |-> o]

\* dict.get(key, default)
Get(obj, key, default) == IF key \in DOMAIN obj THEN obj[key] ELSE default

\* the calls of the pipeline, in the order predict makes them
Pipeline ==
    << "get_json", "prepare_data", "train_prophet_model", "predict_future",
       "aggregate_daily_to_monthly", "predict_remaining", "detect_trend",
       "jsonify" >>

\* a return of the handler after the first ran calls of the pipeline
Done(resp, ran, vals) ==
    [response |-> resp, steps |-> SubSeq(Pipeline, 1, ran), locals |-> vals]

NoLocals == [stage |-> "none"]

R400Missing == [status |-> 400, body |-> [error |-> "Missing historicalData"]]

R400Insufficient ==
    [status |-> 400,
     body |-> [error |-> "Insufficient historical data",
               message |-> "Need at least 2 months of data for ML prediction"]]

R500Prepare == [status |-> 500, body |-> [error |-> "Failed to prepare data"]]

R500Train == [status |-> 500, body |-> [error |-> "Failed to train model"]]

\* lines 280-286: the handler's except clause
Caught(e) ==
    [status |-> 500,
     body |-> [success |-> FALSE, error |-> e, message |-> "ML prediction failed"]]

Min(a, b) == IF a < b THEN a ELSE b

Max(a, b) == IF a > b THEN a ELSE b

\* lines 189-195: one entry of predictions
Prediction(month_data, confidence) ==
    [month           |-> month_data.month,
     predictedAmount |-> Max0(Round2(Whole(month_data.yhat))),
     lowerBound      |-> Max0(Round2(Whole(month_data.yhat_lower))),
     upperBound      |-> Round2(Whole(month_data.yhat_upper)),
     confidence      |-> confidence]

\* lines 180-195: the loop over the first n monthly rows, from row i on
RECURSIVE Predictions(_, _, _, _)
PredictionsRest(month_data, confidence, rest) ==
    IF rest.exc # "none" THEN rest
    ELSE Ok(<<Prediction(month_data, confidence.val)>> \o rest.val)

PredictionsFrom(monthly_forecast, i, n, env, confidence) ==
    IF confidence.exc # "none" THEN Raise(confidence.exc)
    ELSE PredictionsRest(monthly_forecast[i], confidence,
                         Predictions(monthly_forecast, i + 1, n, env))

Predictions(monthly_forecast, i, n, env) ==
    IF i > n THEN Ok(<< >>)
    ELSE PredictionsFrom(monthly_forecast, i, n, env,
             calculate_confidence(monthly_forecast[i].yhat,
                 monthly_forecast[i].yhat_lower, monthly_forecast[i].yhat_upper, env))

\* last_date with a fault: the clock taken for the last historical date
last_date_now(df) == now

\* line 166: df['ds'].max()
last_date(df) ==
    CHOOSE d \in {df[i].ds : i \in DOMAIN df} : \A i \in DOMAIN df : df[i].ds <= d

\* line 167
future_days(forecast_months) == forecast_months * 30 + 15

\* lines 165-177: the monthly forecast over the future window
MonthlyForecast(df, model, forecast_months) ==
    aggregate_daily_to_monthly(
        SelectSeq2(ModelPredict(model,
                       make_future_dataframe(model, future_days(forecast_months))),
                   last_date(df)))

\* lines 201-202: daily_rate * total_days
SimpleFrom(daily_rate, total_days) ==
    [num |-> daily_rate.num * total_days, den |-> daily_rate.den]

simple_projection(current_month_spent, days_passed, total_days) ==
    SimpleFrom(Frac(current_month_spent, Max(days_passed, 1)), total_days)

\* lines 209-213: the sum of the model's predictions for remaining_days days
\* from today; pandas and Prophet take no frame of no rows
remaining_spending(model, remaining_days, clock, env) ==
    IF remaining_days <= 0
    THEN IF env.emptyframe = "raise" THEN Raise("ValueError") ELSE Ok(0)
    ELSE Ok(SumField(1..remaining_days,
                     ModelPredict(model, [k \in 1..remaining_days |-> clock + (k - 1)]),
                     "yhat"))

\* line 219: 0.7 * ml_projection + 0.3 * simple_projection
final_projection(ml_projection, simple) ==
    Frac(7 * ml_projection * simple.den + 3 * simple.num, 10 * simple.den)

\* is_likely_over_budget with a fault: no monthly_budget > 0 guard
is_likely_over_budget_noguard(final, monthly_budget) ==
    FracLess(Whole(monthly_budget), final)

\* line 222
is_likely_over_budget(final, monthly_budget) ==
    IF monthly_budget > 0 THEN FracLess(Whole(monthly_budget), final) ELSE FALSE

\* final - amount
FracMinus(final, amount) ==
    [num |-> final.num - amount * final.den, den |-> final.den]

\* line 223
budget_difference(final, monthly_budget) ==
    IF monthly_budget > 0 THEN FracMinus(final, monthly_budget) ELSE Whole(0)

\* lines 226-232
overall_confidence(data_months) ==
    IF data_months >= 6 THEN "high"
    ELSE IF data_months >= 3 THEN "medium" ELSE "low"

RECURSIVE SumSpent(_)
SumSpent(historical_data) ==
    IF historical_data = << >> THEN 0
    ELSE Head(historical_data).spent + SumSpent(Tail(historical_data))

\* round(x): to a whole currency unit
Round0(x) == 1000 * RoundHalfEven(x.num, x.den * 1000)

\* lines 239-251: what the explanation text reports
Explanation(data_months, avg_spending, trend, predictions, over, difference, remaining_budget) ==
    [months  |-> data_months,
     average |-> Round0(avg_spending),
     trend   |-> trend,
     next    |-> IF Len(predictions) = 0 THEN << >>
                 ELSE <<Round0(Whole(predictions[1].predictedAmount)),
                        Round0(Whole(predictions[1].lowerBound)),
                        Round0(Whole(predictions[1].upperBound))>>,
     budget  |-> IF over THEN <<"exceed", Round0(difference)>>
                 ELSE <<"spare", Round0(remaining_budget)>>]

\* lines 258-264
CurrentMonthProjection(args, final, remaining_days) ==
    [projectedTotal       |-> Round2(final),
     currentSpent         |-> args.current_month_spent,
     projectedRemaining   |-> Max0(Round2(FracMinus(final, args.current_month_spent))),
     daysRemaining        |-> remaining_days,
     dailyBudgetRemaining |->
        IF args.monthly_budget > 0
        THEN Round2(Frac(args.monthly_budget - args.current_month_spent,
                         Max(remaining_days, 1)))
        ELSE 0]

\* lines 254-276: the response
ResponseBody(historical_data, args, predictions, final, remaining_days, over, difference, trend, avg_spending) ==
    [success                |-> TRUE,
     predictions            |-> predictions,
     nextMonthPrediction    |-> IF Len(predictions) > 0
                                THEN ListPy(<<predictions[1]>>) ELSE NonePy,
     currentMonthProjection |-> CurrentMonthProjection(args, final, remaining_days),
     isLikelyOverBudget     |-> over,
     budgetDifference       |-> Round2(difference),
     confidence             |-> overall_confidence(Len(historical_data)),
     trend                  |-> trend,
     averageSpending        |-> Round2(avg_spending),
     explanation            |->
        Explanation(Len(historical_data), avg_spending, trend, predictions, over,
                    difference,
                    IF args.monthly_budget > 0
                    THEN Frac(-difference.num, difference.den) ELSE Whole(0)),
     modelInfo              |-> [algorithm |-> "Facebook Prophet",
                                 trainingMonths |-> Len(historical_data),
                                 features |-> <<"trend", "yearly_seasonality">>]]

\* lines 234-278: the trend, the response and its serialisation
predict_compose(historical_data, args, predictions, final, remaining_days, trend, env, vals) ==
    IF trend.exc # "none" THEN Done(Caught(trend.exc), 7, vals)
    ELSE IF env.jsonify = "raise" THEN Done(Caught("TypeError"), 8, vals)
    ELSE Done([status |-> 200,
               body |-> ResponseBody(historical_data, args, predictions, final,
                            remaining_days,
                            is_likely_over_budget(final, args.monthly_budget),
                            budget_difference(final, args.monthly_budget),
                            trend.val,
                            Frac(SumSpent(historical_data), Len(historical_data)))],
              8, vals)

\* lines 215-219: the model's projection, blended with the simple one
predict_blend(historical_data, args, predictions, simple, ml_projection, remaining, env, vals) ==
    predict_compose(historical_data, args, predictions,
        final_projection(ml_projection, simple),
        args.total_days - args.days_passed,
        detect_trend(historical_data), env,
        [vals EXCEPT !.stage = "projected"]
            @@ [simple_projection  |-> simple,
                remaining_spending |-> remaining,
                ml_projection      |-> ml_projection,
                final_projection   |-> final_projection(ml_projection, simple)])

\* lines 197-216: the current month's remaining spending
predict_projected(historical_data, args, predictions, remaining, env, vals) ==
    IF remaining.exc # "none" THEN Done(Caught(remaining.exc), 6, vals)
    ELSE predict_blend(historical_data, args, predictions,
             simple_projection(args.current_month_spent, args.days_passed,
                               args.total_days),
             args.current_month_spent + Max0(remaining.val),
             remaining.val, env, vals)

\* lines 179-213: the predictions list, then the current month's forecast
predict_aggregated(historical_data, args, model, predictions, env, clock, vals) ==
    IF predictions.exc # "none" THEN Done(Caught(predictions.exc), 5, vals)
    ELSE predict_projected(historical_data, args, predictions.val,
             remaining_spending(model, args.total_days - args.days_passed, clock, env),
             env, vals @@ [today |-> clock])

\* lines 165-195: the monthly forecast and its first forecast_months rows
predict_forecast(historical_data, args, df, model, monthly_forecast, env, clock) ==
    predict_aggregated(historical_data, args, model,
        Predictions(monthly_forecast, 1,
                    Min(args.forecast_months, Len(monthly_forecast)), env),
        env, clock,
        [stage |-> "forecast", df_len |-> Len(df),
         model |-> [level |-> model.level, slope |-> model.slope,
                    wl |-> model.wl, wu |-> model.wu, t0 |-> model.t0],
         monthly_forecast |-> monthly_forecast])

\* lines 160-177: the trained model
predict_trained(historical_data, args, df, model, env, clock) ==
    IF model.exc # "none"
    THEN Done(Caught(model.exc), 3, [stage |-> "prepared", df_len |-> Len(df)])
    ELSE IF model.val.isNone
    THEN Done(R500Train, 3, [stage |-> "prepared", df_len |-> Len(df)])
    ELSE predict_forecast(historical_data, args, df, model.val.list[1],
             MonthlyForecast(df, model.val.list[1], args.forecast_months),
             env, clock)

\* lines 153-160: the prepared data
predict_prepared(historical_data, args, df, env, clock) ==
    IF df.exc # "none" THEN Done(Caught(df.exc), 2, NoLocals)
    ELSE IF df.val.isNone THEN Done(R500Prepare, 2, NoLocals)
    ELSE predict_trained(historical_data, args, df.val.list,
                         train_prophet_model(df.val, env), env, clock)

\* predict_validated with a fault: a single entry let through
predict_validated_one(historical_data, args, env, clock) ==
    IF Len(historical_data) < 1 THEN Done(R400Insufficient, 1, NoLocals)
    ELSE predict_prepared(historical_data, args,
                          prepare_data(ListPy(historical_data)), env, clock)

\* lines 139-154: the arguments and the entry-count gate
predict_validated(historical_data, args, env, clock) ==
    IF Len(historical_data) < 2 THEN Done(R400Insufficient, 1, NoLocals)
    ELSE predict_prepared(historical_data, args,
                          prepare_data(ListPy(historical_data)), env, clock)

\* lines 133-145
predict(data, env, clock) ==
    IF data.isNone \/ DOMAIN data.obj = {} \/ "historicalData" \notin DOMAIN data.obj
    THEN Done(R400Missing, 1, NoLocals)
    ELSE predict_validated(data.obj.historicalData,
             [current_month_spent |-> Get(data.obj, "currentMonthSpent", 0),
              days_passed         |-> Get(data.obj, "daysPassedInMonth", 1),
              total_days          |-> Get(data.obj, "totalDaysInMonth", 30),
              monthly_budget      |-> Get(data.obj, "monthlyBudget", 0),
              forecast_months     |-> Get(data.obj, "forecastMonths", 3)],
             env, clock)

(***************************************************************************)
(* Requests, engine outcomes and the clock                                 *)
(***************************************************************************)
Entry(y, m, spent) == [month |-> PeriodStr(y, m), spent |-> spent]

\* histories the validation gate rejects
ShortHistories == { << >>, <<Entry(2024, 1, 20000)>> }

\* two months, the first compared with the last: +15%, +20%, -20%, and a
\* last month of no spending
PairHistories ==
    { <<Entry(2024, 2, sp[1]), Entry(2024, 1, sp[2])>> :
        sp \in { <<23000, 20000>>, <<24000, 20000>>, <<16000, 20000>>,
                 <<20000, 0>> } }

\* the same February twice, a month that does not exist, three months, and
\* the six months of the /test endpoint (a thousandth of its amounts)
OtherHistories ==
    { <<Entry(2023, 2, 14000), Entry(2023, 2, 14000)>>,
      <<Entry(2024, 13, 20000), Entry(2024, 1, 20000)>>,
      <<Entry(2024, 3, 24000), Entry(2024, 2, 0), Entry(2024, 1, 20000)>>,
      <<Entry(2025, 11, 15000), Entry(2025, 10, 18000), Entry(2025, 9, 14500),
        Entry(2025, 8, 16000), Entry(2025, 7, 15500), Entry(2025, 6, 17000)>> }

\* the current month's progress: omitted, mid-month, month over, no day passed
Progress ==
    { << >>,
      [currentMonthSpent |-> 12000, daysPassedInMonth |-> 15, totalDaysInMonth |-> 30],
      [currentMonthSpent |-> 25000, daysPassedInMonth |-> 30, totalDaysInMonth |-> 30],
      [currentMonthSpent |-> 9000, daysPassedInMonth |-> 0, totalDaysInMonth |-> 28] }

\* the budget: omitted, zero, below, and exactly at a projection of 21900
Budgets ==
    { << >>, [monthlyBudget |-> 0], [monthlyBudget |-> 20000],
      [monthlyBudget |-> 21900] }

Horizons == { << >>, [forecastMonths |-> 1] }

BaseHistory == <<Entry(2024, 2, 23000), Entry(2024, 1, 20000)>>

\* bodies the validation gate rejects
GateBodies ==
    { NoneData, Object(<< >>), Object([monthlyBudget |-> 20000]) }
    \cup { Object([historicalData |-> h]) : h \in ShortHistories }

\* every history with the other fields omitted, and one history with every
\* combination of the other fields
Bodies ==
    GateBodies
    \cup { Object([historicalData |-> h]) : h \in PairHistories \cup OtherHistories }
    \cup { Object([historicalData |-> BaseHistory] @@ p @@ b @@ n) :
             p \in Progress, b \in Budgets, n \in Horizons }

\* fitted trends: a flat one with no interval, one whose interval is exactly
\* 20% wide, rising ones, one with a negative lower bound, a zero one and a
\* negative one
Params ==
    { [level |-> 600, slope |-> 0, wl |-> 0, wu |-> 0],
      [level |-> 600, slope |-> 0, wl |-> 60, wu |-> 60],
      [level |-> 600, slope |-> 1, wl |-> 50, wu |-> 50],
      [level |-> 600, slope |-> 1, wl |-> 100, wu |-> 200],
      [level |-> 600, slope |-> 0, wl |-> 700, wu |-> 100],
      [level |-> 0, slope |-> 0, wl |-> 50, wu |-> 50],
      [level |-> -100, slope |-> 0, wl |-> 50, wu |-> 20] }

Env(p, f, z, e, j) ==
    [fit |-> f, params |-> p, zerodiv |-> z, emptyframe |-> e, jsonify |-> j]

FlatParams == [level |-> 600, slope |-> 0, wl |-> 0, wu |-> 0]

ZeroParams == [level |-> 0, slope |-> 0, wl |-> 50, wu |-> 50]

\* every trend with numpy's division and a predict that takes no empty
\* frame; then a division that raises, a predict that returns an empty
\* frame, a fit that raises and a response that does not serialise
Envs ==
    { Env(p, "ok", "inf", "raise", "ok") : p \in Params }
    \cup { Env(ZeroParams, "ok", "raise", "raise", "ok"),
           Env(FlatParams, "ok", "inf", "empty", "ok"),
           Env(ZeroParams, "ok", "inf", "empty", "ok"),
           Env(FlatParams, "raise", "inf", "raise", "ok"),
           Env(FlatParams, "ok", "inf", "empty", "raise") }

\* datetime.now() at the start, read at the resolution of a day
Clock0 == ToOrdinal([year |-> 2024, month |-> 3, day |-> 10])

MaxTicks == 1

NoRequest == [isNone |-> TRUE, obj |-> [idle |-> TRUE]]

NoResponse == [status |-> 0, body |-> [none |-> TRUE]]

NoMemo == [set |-> FALSE]

NoEngine == [fit |-> "none"]

NoCall == [fn |-> "none"]

(***************************************************************************)
(* The service: a request arrives, the handler answers it, the client      *)
(* takes the answer; time passes.                                          *)
(***************************************************************************)
Init ==
    /\ pc = "idle"
    /\ request = NoRequest
    /\ engine = NoEngine
    /\ response = NoResponse
    /\ steps = << >>
    /\ locals = NoLocals
    /\ now = Clock0
    /\ memo = NoMemo
    /\ call = NoCall
    /\ ret = NoCall

Receive(bodies) ==
    /\ pc = "idle"
    /\ \E data \in bodies : request' = data
    /\ pc' = "received"
    /\ UNCHANGED <<engine, response, steps, locals, now, memo, call, ret>>

Handle(env) ==
    \E r \in {predict(request, env, now)} :
        /\ engine' = env
        /\ response' = r.response
        /\ steps' = r.steps
        /\ locals' = r.locals
        /\ pc' = "responded"
        /\ UNCHANGED <<request, now, memo, call, ret>>

Predict ==
    /\ pc = "received"
    /\ \E env \in Envs : Handle(env)

Reply ==
    /\ pc = "responded"
    /\ pc' = "idle"
    /\ request' = NoRequest
    /\ engine' = NoEngine
    /\ response' = NoResponse
    /\ steps' = << >>
    /\ locals' = NoLocals
    /\ UNCHANGED <<now, memo, call, ret>>

Tick ==
    /\ now < Clock0 + MaxTicks
    /\ now' = now + 1
    /\ UNCHANGED <<pc, request, engine, response, steps, locals, memo, call, ret>>

ReceiveAny == Receive(Bodies)

Next == ReceiveAny \/ Predict \/ Reply \/ Tick

Spec == Init /\ [][Next]_vars

(***************************************************************************)
(* The service with a deterministic engine: the fitted trend is a function *)
(* of the training data alone.  One earlier exchange is remembered, to     *)
(* compare a later answer with.                                            *)
(***************************************************************************)
\* the level is the mean daily spending of the history, the trend rises by
\* one a day
DetParams(historical_data) ==
    [level |-> SumSpent(historical_data) \div (30 * Len(historical_data)),
     slope |-> 1, wl |-> 50, wu |-> 50]

DetEnv(data) ==
    IF data.isNone \/ "historicalData" \notin DOMAIN data.obj
       \/ Len(data.obj.historicalData) = 0
    THEN Env(FlatParams, "ok", "inf", "raise", "ok")
    ELSE Env(DetParams(data.obj.historicalData), "ok", "inf", "raise", "ok")

DetBodies ==
    { Object([historicalData |-> h]) :
        h \in { <<Entry(2024, 2, 24000), Entry(2024, 1, 20000)>>,
                <<Entry(2024, 3, 24000), Entry(2024, 2, 0), Entry(2024, 1, 20000)>> } }
    \cup { Object([historicalData |-> BaseHistory] @@ p @@ b) :
             p \in Progress, b \in { << >>, [monthlyBudget |-> 20000] } }

ReceiveDet == Receive(DetBodies)

PredictDet ==
    /\ pc = "received"
    /\ Handle(DetEnv(request))

Remember ==
    /\ pc = "responded"
    /\ ~memo.set
    /\ "today" \in DOMAIN locals
    /\ memo' = [set |-> TRUE, request |-> request, at |-> locals.today,
                response |-> response]
    /\ UNCHANGED <<pc, request, engine, response, steps, locals, now, call, ret>>

NextDet == ReceiveDet \/ PredictDet \/ Remember \/ Reply \/ Tick

SpecDet == Init /\ [][NextDet]_vars

(***************************************************************************)
(* The service asked for long horizons: histories whose latest month is    *)
(* any month of two years, forecastMonths from 1 to MaxForecastMonths.     *)
(***************************************************************************)
MaxForecastMonths == 31

WindowMonths == { <<y, m>> : y \in {2022, 2023}, m \in 1..12 }

WindowBodies ==
    { Object([historicalData |-> <<Entry(ym[1], ym[2], 20000), Entry(2021, 6, 18000)>>,
              forecastMonths |-> n]) :
        ym \in WindowMonths, n \in 1..MaxForecastMonths }

WindowEnv ==
    Env([level |-> 1000, slope |-> 1, wl |-> 100, wu |-> 100],
        "ok", "inf", "raise", "ok")

ReceiveWindow == Receive(WindowBodies)

PredictWindow ==
    /\ pc = "received"
    /\ Handle(WindowEnv)

NextWindow == ReceiveWindow \/ PredictWindow \/ Reply

SpecWindow == Init /\ [][NextWindow]_vars

(***************************************************************************)
(* prepare_data and detect_trend called on their own: the argument is      *)
(* drawn at the start, the call returns once.                              *)
(***************************************************************************)
ExpandYears == {2000, 2023, 2024, 2100}

ExpandInputs ==
    { NonePy, ListPy(<< >>) }
    \cup { ListPy(<<Entry(y, m, sp)>>) :
             y \in ExpandYears, m \in 1..12, sp \in {0, 100, 31000} }
    \cup { ListPy(<<Entry(y, 2, 31000), Entry(y, m, 100)>>) :
             y \in ExpandYears, m \in {1, 2, 12} }

InitCall(calls) ==
    /\ pc = "idle"
    /\ request = NoRequest
    /\ engine = NoEngine
    /\ response = NoResponse
    /\ steps = << >>
    /\ locals = NoLocals
    /\ now = Clock0
    /\ memo = NoMemo
    /\ call \in calls
    /\ ret = NoCall

InitExpand == InitCall({ [fn |-> "prepare_data", arg |-> a] : a \in ExpandInputs })

CallPrepareData ==
    /\ call.fn = "prepare_data"
    /\ ret = NoCall
    /\ ret' = [fn |-> "prepare_data", result |-> prepare_data(call.arg)]
    /\ UNCHANGED <<pc, request, engine, response, steps, locals, now, memo, call>>

SpecExpand == InitExpand /\ [][CallPrepareData]_vars

TrendSpent == {0, 16000, 17000, 20000, 23000, 24000}

TrendLists(n) == [1..n -> {Entry(2024, 1, sp) : sp \in TrendSpent}]

TrendInputs == TrendLists(0) \cup TrendLists(1) \cup TrendLists(2) \cup TrendLists(3)

InitTrend == InitCall({ [fn |-> "detect_trend", arg |-> a] : a \in TrendInputs })

CallDetectTrend ==
    /\ call.fn = "detect_trend"
    /\ ret = NoCall
    /\ ret' = [fn |-> "detect_trend", result |-> detect_trend(call.arg)]
    /\ UNCHANGED <<pc, request, engine, response, steps, locals, now, memo, call>>

SpecTrend == InitTrend /\ [][CallDetectTrend]_vars

(***************************************************************************)
(* Properties                                                              *)
(***************************************************************************)
Answered == pc = "responded"

Answered200 == pc = "responded" /\ response.status = 200

\* the request passes both validation gates
PassesGate(data) ==
    /\ ~data.isNone
    /\ "historicalData" \in DOMAIN data.obj
    /\ Len(data.obj.historicalData) >= 2

\* every month string names a month of the calendar
ValidMonths(historical_data) ==
    \A i \in DOMAIN historical_data :
        historical_data[i].month[5] * 10 + historical_data[i].month[6] \in 1..12

\* C1: in every 200 response, every entry of predictions has
\* 0 <= lowerBound <= predictedAmount <= upperBound, whatever the engine
\* returned.
PredictionBoundsOrdered ==
    Answered200 =>
        \A i \in DOMAIN response.body.predictions :
            /\ 0 <= response.body.predictions[i].lowerBound
            /\ response.body.predictions[i].lowerBound
                   <= response.body.predictions[i].predictedAmount
            /\ response.body.predictions[i].predictedAmount
                   <= response.body.predictions[i].upperBound

\* the steps that prepare data, fit the model or predict
ComputeSteps ==
    { "prepare_data", "train_prophet_model", "predict_future",
      "aggregate_daily_to_monthly", "predict_remaining" }

\* C2: a body that is absent or empty, lacks historicalData or has fewer
\* than 2 entries is answered 400 and no preparation, fitting or prediction
\* step runs; a body with 2 or more entries is never answered 400.
GateAnswers400 ==
    Answered =>
        IF PassesGate(request)
        THEN response.status # 400
        ELSE /\ response.status = 400
             /\ \A i \in DOMAIN steps : steps[i] \notin ComputeSteps

\* a single entry was answered 400 after get_json alone
SingleEntryRejected ==
    /\ Answered
    /\ ~request.isNone
    /\ "historicalData" \in DOMAIN request.obj
    /\ Len(request.obj.historicalData) = 1
    /\ response = R400Insufficient
    /\ steps = <<"get_json">>

ResultFields ==
    { "success", "predictions", "nextMonthPrediction", "currentMonthProjection",
      "isLikelyOverBudget", "budgetDifference", "confidence", "trend",
      "averageSpending", "explanation", "modelInfo" }

FullResult(resp) ==
    /\ resp.status = 200
    /\ DOMAIN resp.body = ResultFields
    /\ resp.body.success = TRUE

ErrorObject(resp) ==
    /\ resp.status \in {400, 500}
    /\ "error" \in DOMAIN resp.body
    /\ DOMAIN resp.body \cap (ResultFields \ {"success"}) = {}

\* C3: every request ends in the full result (200, success true, every
\* field) or in an error object, never both and never a part of the result;
\* an exception after the validation gate (a month that does not parse, a
\* fit that fails, the division by a last spent of 0) is answered 500 with
\* success false; no step of the pipeline runs twice.
FullResultOrError ==
    Answered =>
        /\ FullResult(response) # ErrorObject(response)
        /\ FullResult(response) => steps = Pipeline
        /\ \A i, j \in DOMAIN steps : steps[i] = steps[j] => i = j
        /\ (response.status = 500 /\ response \notin {R500Prepare, R500Train})
               => (response.body.success = FALSE /\ Len(steps) >= 2)
        /\ PassesGate(request) =>
              /\ ~ValidMonths(request.obj.historicalData)
                     => response = Caught("ValueError")
              /\ (ValidMonths(request.obj.historicalData) /\ engine.fit = "raise")
                     => response = Caught("FitError")
              /\ request.obj.historicalData[Len(request.obj.historicalData)].spent = 0
                     => (response.status = 500 /\ response.body.success = FALSE)

\* the trend detector divided by a last spent of 0 and the handler caught it
TrendDivisionCaught ==
    /\ Answered
    /\ PassesGate(request)
    /\ request.obj.historicalData[Len(request.obj.historicalData)].spent = 0
    /\ response = Caught("ZeroDivisionError")
    /\ steps = SubSeq(Pipeline, 1, 7)

\* 10 * D * (0.7 * model projection + 0.3 * simple projection), where
\* D = max(daysPassedInMonth, 1), from the request and the model's sum for
\* the remaining days
BlendTimes(data, remaining) ==
    7 * (Get(data, "currentMonthSpent", 0) + (IF remaining > 0 THEN remaining ELSE 0))
          * Max(Get(data, "daysPassedInMonth", 1), 1)
    + 3 * Get(data, "currentMonthSpent", 0) * Get(data, "totalDaysInMonth", 30)

\* C4: in every 200 response isLikelyOverBudget is true exactly when
\* monthlyBudget > 0 and 0.7 * model projection + 0.3 * simple projection
\* exceeds it; with monthlyBudget 0 or omitted the flag is false and
\* budgetDifference is 0.
OverBudgetIffAboveBudget ==
    Answered200 =>
        /\ response.body.isLikelyOverBudget =
              (/\ Get(request.obj, "monthlyBudget", 0) > 0
               /\ BlendTimes(request.obj, locals.remaining_spending)
                     > 10 * Max(Get(request.obj, "daysPassedInMonth", 1), 1)
                          * Get(request.obj, "monthlyBudget", 0))
        /\ Get(request.obj, "monthlyBudget", 0) = 0
              => (response.body.isLikelyOverBudget = FALSE
                  /\ response.body.budgetDifference = 0)

\* a budget of 20000 was projected to be exceeded
OverBudgetFlagged ==
    /\ Answered200
    /\ Get(request.obj, "monthlyBudget", 0) = 20000
    /\ response.body.isLikelyOverBudget = TRUE
    /\ response.body.budgetDifference > 0

\* the label the thresholds 0.2 and 0.4 give (upper - lower) / amount
LabelOfWidth(lower, amount, upper) ==
    IF 5 * (upper - lower) < amount THEN "high"
    ELSE IF 5 * (upper - lower) < 2 * amount THEN "medium"
    ELSE "low"

\* C7: each prediction's confidence is the label of the width
\* (upperBound - lowerBound) / predictedAmount of that prediction, and "low"
\* whenever its predictedAmount is zero.
ConfidenceFromSurfacedWidth ==
    Answered200 =>
        \A i \in DOMAIN response.body.predictions :
            response.body.predictions[i].confidence =
                IF response.body.predictions[i].predictedAmount = 0 THEN "low"
                ELSE LabelOfWidth(response.body.predictions[i].lowerBound,
                                  response.body.predictions[i].predictedAmount,
                                  response.body.predictions[i].upperBound)

TwoEntryBodies ==
    { data \in Bodies : PassesGate(data) /\ Len(data.obj.historicalData) = 2 }

\* C9 as stated: some request of exactly 2 entries passes the entry-count
\* gate and is answered 500 "Failed to train model".
TwoEntriesCanFailTraining ==
    \E data \in TwoEntryBodies, env \in Envs :
        predict(data, env, now).response = R500Train

\* C9 as amended: a request of exactly 2 entries is never answered 400 and
\* never 500 "Failed to train model"; once its months are parsed its daily
\* expansion has at least 56 points, so the training-size gate lets it pass.
TwoEntriesAlwaysTrain ==
    (Answered /\ PassesGate(request) /\ Len(request.obj.historicalData) = 2) =>
        /\ response.status # 400
        /\ response # R500Train
        /\ "df_len" \in DOMAIN locals => locals.df_len >= 56

\* two Februaries of 28 days: 56 points, and a forecast
TwoShortMonthsTrained ==
    /\ Answered200
    /\ Len(request.obj.historicalData) = 2
    /\ locals.df_len = 56

\* the point estimates of a 200 response: the monthly amounts and the
\* current month's projected total
MonthlyAmounts(resp) ==
    [i \in DOMAIN resp.body.predictions |-> resp.body.predictions[i].predictedAmount]

ProjectedTotal(resp) == resp.body.currentMonthProjection.projectedTotal

\* the same body was answered 200 before and is answered 200 again
AnsweredAgain ==
    /\ memo.set
    /\ Answered200
    /\ memo.request = request
    /\ memo.response.status = 200

CalendarDays(y, m) ==
    IF m = 2
    THEN IF (y % 4 = 0 /\ y % 100 # 0) \/ y % 400 = 0 THEN 29 ELSE 28
    ELSE IF m \in {4, 6, 9, 11} THEN 30 ELSE 31

YearOf(entry) ==
    entry.month[1] * 1000 + entry.month[2] * 100 + entry.month[3] * 10 + entry.month[4]

MonthOf(entry) == entry.month[5] * 10 + entry.month[6]

\* the number of daily points of the entries before entry k
RECURSIVE PointsBefore(_, _)
PointsBefore(entries, k) ==
    IF k = 1 THEN 0
    ELSE PointsBefore(entries, k - 1)
         + CalendarDays(YearOf(entries[k - 1]), MonthOf(entries[k - 1]))

\* C6: prepare_data gives every entry as many daily points as its calendar
\* month has days (February of a leap year 29), on consecutive days from the
\* 1st of the month, each of value spent / days, so that an entry's points
\* sum to its spent; empty or absent input gives None, not an error.
ExpansionCoversEachMonth ==
    ret.fn = "prepare_data" =>
        IF call.arg.isNone \/ call.arg.list = << >>
        THEN ret.result = Ok(NonePy)
        ELSE /\ ret.result.exc = "none"
             /\ ~ret.result.val.isNone
             /\ Len(ret.result.val.list)
                    = PointsBefore(call.arg.list, Len(call.arg.list) + 1)
             /\ \A k \in DOMAIN call.arg.list :
                   \A d \in 1..CalendarDays(YearOf(call.arg.list[k]),
                                            MonthOf(call.arg.list[k])) :
                       /\ FromOrdinal(ret.result.val.list[
                              PointsBefore(call.arg.list, k) + d].ds)
                            = [year  |-> YearOf(call.arg.list[k]),
                               month |-> MonthOf(call.arg.list[k]),
                               day   |-> d]
                       /\ ret.result.val.list[PointsBefore(call.arg.list, k) + d].y.num
                            * CalendarDays(YearOf(call.arg.list[k]),
                                           MonthOf(call.arg.list[k]))
                            = call.arg.list[k].spent
                              * ret.result.val.list[
                                    PointsBefore(call.arg.list, k) + d].y.den

\* February 2024 expanded to 29 points
LeapFebruaryExpanded ==
    /\ ret.fn = "prepare_data"
    /\ ~call.arg.isNone
    /\ Len(call.arg.list) = 1
    /\ call.arg.list[1] = Entry(2024, 2, 31000)
    /\ Len(ret.result.val.list) = 29

\* C8: the trend label depends on the spent of the first and of the last
\* entry alone: with changePercent = (first - last) / last * 100 it is
\* "increasing" above 15, "decreasing" below -15 and "stable" otherwise, +15
\* and -15 included; fewer than 2 entries give "stable".
TrendFromFirstAndLast ==
    ret.fn = "detect_trend" =>
        IF Len(call.arg) < 2 THEN ret.result = Ok("stable")
        ELSE call.arg[Len(call.arg)].spent > 0 =>
                ret.result =
                    Ok(IF (call.arg[1].spent - call.arg[Len(call.arg)].spent) * 100
                              > 15 * call.arg[Len(call.arg)].spent
                       THEN "increasing"
                       ELSE IF (call.arg[1].spent - call.arg[Len(call.arg)].spent) * 100
                                   < (-15) * call.arg[Len(call.arg)].spent
                       THEN "decreasing"
                       ELSE "stable")

\* exactly +15% over three entries, the middle one far off: "stable"
TrendBoundaryStable ==
    /\ ret.fn = "detect_trend"
    /\ Len(call.arg) = 3
    /\ call.arg[1].spent = 23000
    /\ call.arg[2].spent = 0
    /\ call.arg[3].spent = 20000
    /\ ret.result = Ok("stable")

\* the index, year * 12 + (month - 1), of the latest month of a history
LatestMonth(historical_data) ==
    CHOOSE p \in { YearOf(historical_data[i]) * 12 + MonthOf(historical_data[i]) - 1 :
                     i \in DOMAIN historical_data } :
        \A i \in DOMAIN historical_data :
            YearOf(historical_data[i]) * 12 + MonthOf(historical_data[i]) - 1 <= p

\* the sum of the model's daily point estimates over days days from first
RECURSIVE DailySum(_, _, _)
DailySum(model, first, days) ==
    IF days = 0 THEN 0
    ELSE PredictRow(model, first + days - 1).yhat + DailySum(model, first, days - 1)

\* the model's sum over every day of the month of index p
FullMonthSum(model, p) ==
    DailySum(model, ToOrdinal([year |-> p \div 12, month |-> (p % 12) + 1, day |-> 1]),
             CalendarDays(p \div 12, (p % 12) + 1))

\* C10: for every forecastMonths = N >= 1 the window of N * 30 + 15 days
\* gives exactly N predictions, for the N calendar months after the latest
\* historical month, in order, each the sum of the daily predictions of every
\* day of its month.
WindowGivesFullMonths ==
    Answered200 =>
        /\ Len(response.body.predictions) = Get(request.obj, "forecastMonths", 3)
        /\ \A i \in DOMAIN response.body.predictions :
              /\ response.body.predictions[i].month
                    = PeriodStr((LatestMonth(request.obj.historicalData) + i) \div 12,
                                ((LatestMonth(request.obj.historicalData) + i) % 12) + 1)
              /\ response.body.predictions[i].predictedAmount
                    = Max0(Round2(Whole(FullMonthSum(locals.model,
                               LatestMonth(request.obj.historicalData) + i))))

====
